---- MODULE Spec2Model ----
(***************************************************************************)
(* Per-tenant WhatsApp session gateway.                                    *)
(*                                                                         *)
(* Two programs of the repository are modelled on the same variables:      *)
(*   Spec    src/node.js lines 159-453: LocalAuth sessions, QR cache,      *)
(*           QR generation timeout, destroy-before-create, logout.         *)
(*   SpecS3  src/unnamed/part_000: the same gateway with the session       *)
(*           directory restored from / uploaded to / deleted from S3.      *)
(* Every await of the source is a point where other handlers may run, so   *)
(* a handler with an await is one action per segment between awaits.       *)
(***************************************************************************)
EXTENDS Integers, Sequences, FiniteSets, TLC

\* ------------------------------------------------------------- bounds
\* initializeClient calls explored (call k constructs client k) and tenants
MaxCalls == 2
MaxRaceCalls == 3
MaxSendCalls == 1
MaxS3Calls == 2
OneTenant == {"a"}
TwoTenants == {"a", "b"}
MaxIsoCalls == 2
\* granularity and horizon of the clock (Date.now()), in ms
TickMs == 5000
MaxNow == 20000

\* ---------------------------------------------------------- constants
QR_CACHE_DURATION == 20000
QR_GENERATION_TIMEOUT == 15000
\* JavaScript null in qrCode / qrGeneratedAt
NullQr == <<>>
NullTime == -1

VARIABLES
    clients,    \* the registry object: tenant -> record, key absent when deleted
    pc,         \* position of initializeClient call k
    tenantOf,   \* userId captured by call k and by client k's listeners
    arrival,    \* what call k's request found in the registry: "absent" | "pending"
                \* (a record without a cached code) | "expired" (a cached code, too old)
    victim,     \* the client whose destroy() call k is awaiting (0: none)
    cl,         \* client k: "unborn" | "live" (constructed and initialized) | "destroyed"
    ev,         \* last lifecycle event client k emitted ("discReady"/"goneReady":
                \* disconnected while it was the tenant's ready session)
    lst,        \* client k's once('qr') listener
    started,    \* Date.now() when call k began its present wait: for destroy(), then
                \* for the pairing code (the QR timeout armed)
    resp,       \* what call k wrote to its HTTP response
    folder,     \* tenant's .wwebjs_auth/session-<id> directory exists
    lpc,        \* client a pending /logout of the tenant is destroying (0: none)
    bulk,       \* the /send-bulk-messages request in progress (one at a time)
    s3,         \* keys of the objects in the bucket (part_000)
    watcher,    \* chokidar watcher on the tenant's session directory: registered,
                \* and the files whose 'add'/'change' event is not handled yet
    up,         \* next file client k's ready handler uploads (0: no upload running)
    lg,         \* stage of the tenant's /logout in part_000
    out,        \* the response written in the last step by a handler that answers at once
    now         \* Date.now()

vars == <<clients, pc, tenantOf, arrival, victim, cl, ev, lst, started, resp, folder, lpc, bulk,
         s3, watcher, up, lg, out, now>>
\* the state only part_000 uses
s3vars == <<s3, watcher, up, lg>>

\* ------------------------------------------------------------ helpers
Calls == DOMAIN pc
Tenants == DOMAIN folder
\* client k is initialized and not destroyed
Live(k) == cl[k] = "live"
Has(t) == t \in DOMAIN clients
\* a slip of the removal: the registry emptied (clients = {}) instead of one key deleted
DelAll(reg, t) == << >>
\* delete clients[userId]
Del(reg, t) == [x \in DOMAIN reg \ {t} |-> reg[x]]
Put(reg, t, rec) == [x \in DOMAIN reg \cup {t} |-> IF x = t THEN rec ELSE reg[x]]

\* client.destroy() settled: resolved (ok) or rejected, on a client in state c
Destroyed(c, ok) == IF ok THEN "destroyed" ELSE c

\* clients[userId] = { client, isReady: false, qrCode: null, qrGeneratedAt: null }
NewRecord(k) == [client |-> k, isReady |-> FALSE, qrCode |-> NullQr, qrGeneratedAt |-> NullTime]

\* the pairing string client k emits, and qrcode.toDataURL of it
QrOf(k) == k
DataURL(q) == <<"data:image/png;base64", q>>

NoResp == [kind |-> "none", qr |-> NullQr]
QrResp(url) == [kind |-> "qr", qr |-> url]
ErrResp == [kind |-> "error", qr |-> NullQr]

\* res.json(...) of a handler: which route, for whom, what, and for the
\* dispatcher routes the details d
NoOut == [op |-> "none", t |-> "", kind |-> "none", qr |-> NullQr, d |-> <<>>]
Out(op, t, kind, qr) == [op |-> op, t |-> t, kind |-> kind, qr |-> qr, d |-> <<>>]
OutD(op, t, kind, d) == [op |-> op, t |-> t, kind |-> kind, qr |-> NullQr, d |-> d]

\* what a listener leaves behind: nothing, or the TypeError of an assignment
\* to a field of clients[userId] when the tenant has no record
Raised(t) == IF Has(t) THEN NoOut ELSE Out("event", t, "TypeError", NullQr)

LogoutIdle == [st |-> "idle", client |-> 0, listed |-> {}]

BulkIdle == [st |-> "idle", t |-> "", client |-> 0, items |-> <<>>, i |-> 0,
             res |-> <<>>, tried |-> <<>>]

\* a slip of the readiness test: the record's existence taken for readiness
IsReadyRecordOnly(t) == Has(t)

\* clients[userId] && clients[userId].isReady
IsReady(t) == Has(t) /\ clients[t].isReady

\* Date.now() - clients[userId].qrGeneratedAt  (null coerces to 0)
Age(t) == now - (IF clients[t].qrGeneratedAt = NullTime THEN 0 ELSE clients[t].qrGeneratedAt)

\* slips of the cache test: the generation timeout taken for the cache
\* duration, and an inclusive comparison
CacheFreshWrongConstant(t) ==
    Has(t) /\ clients[t].qrCode # NullQr /\ Age(t) < QR_GENERATION_TIMEOUT
CacheFreshInclusive(t) ==
    Has(t) /\ clients[t].qrCode # NullQr /\ Age(t) <= QR_CACHE_DURATION

\* clients[userId] && clients[userId].qrCode && Date.now() - qrGeneratedAt < QR_CACHE_DURATION
CacheFresh(t) == Has(t) /\ clients[t].qrCode # NullQr /\ Age(t) < QR_CACHE_DURATION

\* the registry as a request that reaches initializeClient finds it
Found(t) == IF ~Has(t) THEN "absent" ELSE IF clients[t].qrCode = NullQr THEN "pending" ELSE "expired"

FreeCalls == {k \in Calls : pc[k] = "idle"}
NextCall == CHOOSE k \in FreeCalls : \A j \in FreeCalls : k <= j

\* ---------------------------------------------------------------- Init
\* the process after start-up: const clients = {}, no request received yet
\* S: the objects in the bucket when the process starts
InitStored(T, n, S) ==
    /\ clients = << >>
    /\ pc = [k \in 1..n |-> "idle"]
    /\ tenantOf = [k \in 1..n |-> ""]
    /\ arrival = [k \in 1..n |-> "none"]
    /\ victim = [k \in 1..n |-> 0]
    /\ cl = [k \in 1..n |-> "unborn"]
    /\ ev = [k \in 1..n |-> "boot"]
    /\ lst = [k \in 1..n |-> "none"]
    /\ started = [k \in 1..n |-> NullTime]
    /\ resp = [k \in 1..n |-> NoResp]
    /\ folder = [t \in T |-> FALSE]
    /\ lpc = [t \in T |-> 0]
    /\ bulk = BulkIdle
    /\ s3 = S
    /\ watcher = [t \in T |-> [on |-> FALSE, q |-> {}]]
    /\ up = [k \in 1..n |-> 0]
    /\ lg = [t \in T |-> LogoutIdle]
    /\ out = NoOut
    /\ now = 0

\* ... with an empty bucket
InitWith(T, n) == InitStored(T, n, {})

Init == InitWith(OneTenant, MaxCalls)

\* ------------------------------------------- initializeClient (node.js)
\* new Client(...); clients[userId] = {...}; register listeners;
\* client.initialize(); then await generateQRCode()
Construct(k, t, reg) ==
    /\ clients' = Put(reg, t, NewRecord(k))
    /\ pc' = [pc EXCEPT ![k] = "awaitQr"]
    /\ tenantOf' = [tenantOf EXCEPT ![k] = t]
    /\ lst' = [lst EXCEPT ![k] = "armed"]
    /\ started' = [started EXCEPT ![k] = now]
    /\ folder' = [folder EXCEPT ![t] = TRUE]

\* first segment: no record -> construct at once; a record -> await destroy()
InitializeClient(t) ==
    /\ FreeCalls # {}
    /\ arrival' = [arrival EXCEPT ![NextCall] = Found(t)]
    /\ LET k == NextCall IN
        IF Has(t)
        THEN /\ pc' = [pc EXCEPT ![k] = "awaitDestroy"]
             /\ tenantOf' = [tenantOf EXCEPT ![k] = t]
             /\ victim' = [victim EXCEPT ![k] = clients[t].client]
             /\ started' = [started EXCEPT ![k] = now]
             /\ UNCHANGED <<clients, cl, lst, folder>>
        ELSE /\ Construct(k, t, clients)
             /\ cl' = [cl EXCEPT ![k] = "live"]
             /\ UNCHANGED victim
    /\ out' = NoOut
    /\ UNCHANGED <<ev, resp, lpc, bulk, s3vars, now>>

\* second segment: destroy() settled; delete on success, log on failure; construct
InitResume(k) ==
    /\ pc[k] = "awaitDestroy"
    /\ \E ok \in BOOLEAN :
        /\ Construct(k, tenantOf[k], IF ok THEN Del(clients, tenantOf[k]) ELSE clients)
        /\ cl' = [cl EXCEPT ![victim[k]] = Destroyed(@, ok), ![k] = "live"]
    /\ out' = NoOut
    /\ victim' = [victim EXCEPT ![k] = 0]
    /\ UNCHANGED <<arrival, ev, resp, lpc, bulk, s3vars, now>>

\* ------------------------------------------------------ GET /get-qr/:id
GetQr(t) ==
    IF IsReady(t)
    THEN /\ out' = Out("get-qr", t, "active", NullQr)
         /\ UNCHANGED <<clients, pc, tenantOf, arrival, victim, cl, ev, lst, started, resp, folder, lpc, bulk, s3vars, now>>
    ELSE IF CacheFresh(t)
    THEN /\ out' = Out("get-qr", t, "cached", clients[t].qrCode)
         /\ UNCHANGED <<clients, pc, tenantOf, arrival, victim, cl, ev, lst, started, resp, folder, lpc, bulk, s3vars, now>>
    ELSE InitializeClient(t)

\* --------------------------------------------------- generateQRCode
\* client.once('qr'): clearTimeout, then await qrcode.toDataURL(qr)
QrEvent(k) ==
    /\ Live(k) /\ ev[k] = "boot" /\ lst[k] = "armed"
    /\ lst' = [lst EXCEPT ![k] = "convert"]
    /\ started' = [started EXCEPT ![k] = NullTime]
    /\ out' = NoOut
    /\ UNCHANGED <<clients, pc, tenantOf, arrival, victim, cl, ev, resp, folder, lpc, bulk, s3vars, now>>

\* a slip of the 'qr' listener: nothing cached once the request was answered
QrConvertedSkipsAnswered(k) ==
    /\ lst[k] = "convert"
    /\ lst' = [lst EXCEPT ![k] = "used"]
    /\ LET t == tenantOf[k] IN
        IF Has(t) /\ resp[k] = NoResp
        THEN /\ clients' = [clients EXCEPT ![t].qrCode = DataURL(QrOf(k)),
                                           ![t].qrGeneratedAt = now]
             /\ resp' = [resp EXCEPT ![k] = QrResp(DataURL(QrOf(k)))]
        ELSE /\ resp' = [resp EXCEPT ![k] = IF pc[k] = "awaitQr" THEN ErrResp ELSE @]
             /\ UNCHANGED clients
    /\ pc' = [pc EXCEPT ![k] = IF @ = "awaitQr" THEN "done" ELSE @]
    /\ out' = NoOut
    /\ UNCHANGED <<tenantOf, arrival, victim, cl, ev, started, folder, lpc, bulk, s3vars, now>>

\* a response that takes a second body: the data URL written to the request
\* whatever was sent on it before
QrConvertedAnswersAgain(k) ==
    /\ lst[k] = "convert"
    /\ lst' = [lst EXCEPT ![k] = "used"]
    /\ LET t == tenantOf[k] IN
        IF Has(t)
        THEN /\ clients' = [clients EXCEPT ![t].qrCode = DataURL(QrOf(k)),
                                           ![t].qrGeneratedAt = now]
             /\ resp' = [resp EXCEPT ![k] = QrResp(DataURL(QrOf(k)))]
        ELSE /\ resp' = [resp EXCEPT ![k] = IF pc[k] = "awaitQr" THEN ErrResp ELSE @]
             /\ UNCHANGED clients
    /\ pc' = [pc EXCEPT ![k] = IF @ = "awaitQr" THEN "done" ELSE @]
    /\ out' = NoOut
    /\ UNCHANGED <<tenantOf, arrival, victim, cl, ev, started, folder, lpc, bulk, s3vars, now>>

\* toDataURL resolved: cache, answer once, resolve; a TypeError on a deleted
\* record (or a second write to the response) rejects the promise instead
QrConverted(k) ==
    /\ lst[k] = "convert"
    /\ lst' = [lst EXCEPT ![k] = "used"]
    /\ LET t == tenantOf[k] IN
        IF Has(t)
        THEN /\ clients' = [clients EXCEPT ![t].qrCode = DataURL(QrOf(k)),
                                           ![t].qrGeneratedAt = now]
             /\ resp' = [resp EXCEPT ![k] = IF @ = NoResp THEN QrResp(DataURL(QrOf(k))) ELSE @]
        ELSE /\ resp' = [resp EXCEPT ![k] = IF pc[k] = "awaitQr" THEN ErrResp ELSE @]
             /\ UNCHANGED clients
    /\ pc' = [pc EXCEPT ![k] = IF @ = "awaitQr" THEN "done" ELSE @]
    /\ out' = NoOut
    /\ UNCHANGED <<tenantOf, arrival, victim, cl, ev, started, folder, lpc, bulk, s3vars, now>>

\* a slip of the timeout path: the record cleared when the generation times out
QrTimeoutDropsRecord(k) ==
    /\ pc[k] = "awaitQr" /\ lst[k] = "armed"
    /\ now - started[k] >= QR_GENERATION_TIMEOUT
    /\ resp' = [resp EXCEPT ![k] = ErrResp]
    /\ pc' = [pc EXCEPT ![k] = "done"]
    /\ started' = [started EXCEPT ![k] = NullTime]
    /\ clients' = Del(clients, tenantOf[k])
    /\ out' = NoOut
    /\ UNCHANGED <<tenantOf, arrival, victim, cl, ev, lst, folder, lpc, bulk, s3vars, now>>

\* setTimeout(reject, QR_GENERATION_TIMEOUT), caught by initializeClient: 500
QrTimeout(k) ==
    /\ pc[k] = "awaitQr" /\ lst[k] = "armed"
    /\ now - started[k] >= QR_GENERATION_TIMEOUT
    /\ resp' = [resp EXCEPT ![k] = ErrResp]
    /\ pc' = [pc EXCEPT ![k] = "done"]
    /\ started' = [started EXCEPT ![k] = NullTime]
    /\ out' = NoOut
    /\ UNCHANGED <<clients, tenantOf, arrival, victim, cl, ev, lst, folder, lpc, bulk, s3vars, now>>

\* ------------------------------------------------------ client events
\* a slip of the 'ready' listener: the cached code cleared, its time kept
ReadyEventKeepsTime(k) ==
    /\ Live(k) /\ ev[k] = "boot"
    /\ ev' = [ev EXCEPT ![k] = "ready"]
    /\ LET t == tenantOf[k] IN
        clients' = IF Has(t)
                   THEN [clients EXCEPT ![t].isReady = TRUE, ![t].qrCode = NullQr]
                   ELSE clients
    /\ out' = Raised(tenantOf[k])
    /\ UNCHANGED <<pc, tenantOf, arrival, victim, cl, lst, started, resp, folder, lpc, bulk, s3vars, now>>

\* client.on('ready'); without a record the first assignment throws
ReadyEvent(k) ==
    /\ Live(k) /\ ev[k] = "boot"
    /\ ev' = [ev EXCEPT ![k] = "ready"]
    /\ LET t == tenantOf[k] IN
        clients' = IF Has(t)
                   THEN [clients EXCEPT ![t].isReady = TRUE, ![t].qrCode = NullQr,
                                        ![t].qrGeneratedAt = NullTime]
                   ELSE clients
    /\ out' = Raised(tenantOf[k])
    /\ UNCHANGED <<pc, tenantOf, arrival, victim, cl, lst, started, resp, folder, lpc, bulk, s3vars, now>>

\* a slip of the handler: the ready flag cleared, the record kept
AuthFailureKeepsRecord(k) ==
    /\ Live(k) /\ ev[k] = "boot"
    /\ ev' = [ev EXCEPT ![k] = "authfail"]
    /\ clients' = IF Has(tenantOf[k])
                  THEN [clients EXCEPT ![tenantOf[k]].isReady = FALSE]
                  ELSE clients
    /\ out' = NoOut
    /\ UNCHANGED <<pc, tenantOf, arrival, victim, cl, lst, started, resp, folder, lpc, bulk, s3vars, now>>

\* client.on('auth_failure'): isReady = false (throws without a record), delete
AuthFailure(k) ==
    /\ Live(k) /\ ev[k] = "boot"
    /\ ev' = [ev EXCEPT ![k] = "authfail"]
    /\ clients' = Del(clients, tenantOf[k])
    /\ out' = Raised(tenantOf[k])
    /\ UNCHANGED <<pc, tenantOf, arrival, victim, cl, lst, started, resp, folder, lpc, bulk, s3vars, now>>

\* client.on('disconnected'), up to its await client.destroy()
Disconnected(k) ==
    /\ Live(k) /\ ev[k] \in {"boot", "ready"}
    /\ LET t == tenantOf[k] IN
        IF Has(t)
        THEN /\ clients' = [clients EXCEPT ![t].isReady = FALSE]
             /\ ev' = [ev EXCEPT ![k] = IF clients[t].isReady /\ clients[t].client = k
                                        THEN "discReady" ELSE "disc"]
        ELSE /\ ev' = [ev EXCEPT ![k] = "gone"]
             /\ UNCHANGED clients
    /\ out' = Raised(tenantOf[k])
    /\ UNCHANGED <<pc, tenantOf, arrival, victim, cl, lst, started, resp, folder, lpc, bulk, s3vars, now>>

\* a slip of the cleanup: delete clients[userId] inside the try, after the
\* folder is deleted, so that a rejected destroy() skips it
DiscCleanupDeleteInTry(k) ==
    /\ ev[k] \in {"disc", "discReady"}
    /\ ev' = [ev EXCEPT ![k] = IF @ = "discReady" THEN "goneReady" ELSE "gone"]
    /\ \E ok \in BOOLEAN :
        /\ cl' = [cl EXCEPT ![k] = Destroyed(@, ok)]
        /\ folder' = [folder EXCEPT ![tenantOf[k]] = IF ok THEN FALSE ELSE @]
        /\ clients' = IF ok THEN Del(clients, tenantOf[k]) ELSE clients
    /\ out' = NoOut
    /\ UNCHANGED <<pc, tenantOf, arrival, victim, lst, started, resp, lpc, bulk, s3vars, now>>

\* a slip of the cleanup: a disconnection during QR generation answered by
\* client.initialize() on the same client
DiscCleanupReinitializes(k) ==
    /\ ev[k] \in {"disc", "discReady"}
    /\ ev' = [ev EXCEPT ![k] = IF lst[k] = "armed" THEN "boot"
                               ELSE IF @ = "discReady" THEN "goneReady" ELSE "gone"]
    /\ \E ok \in BOOLEAN :
        /\ cl' = [cl EXCEPT ![k] = IF lst[k] = "armed" THEN @ ELSE Destroyed(@, ok)]
        /\ folder' = [folder EXCEPT ![tenantOf[k]] = IF ok THEN FALSE ELSE @]
    /\ clients' = Del(clients, tenantOf[k])
    /\ out' = NoOut
    /\ UNCHANGED <<pc, tenantOf, arrival, victim, lst, started, resp, lpc, bulk, s3vars, now>>

\* ... destroy() settled: delete the session folder on success; delete clients[userId]
DiscCleanup(k) ==
    /\ ev[k] \in {"disc", "discReady"}
    /\ ev' = [ev EXCEPT ![k] = IF @ = "discReady" THEN "goneReady" ELSE "gone"]
    /\ \E ok \in BOOLEAN :
        /\ cl' = [cl EXCEPT ![k] = Destroyed(@, ok)]
        /\ folder' = [folder EXCEPT ![tenantOf[k]] = IF ok THEN FALSE ELSE @]
    /\ clients' = Del(clients, tenantOf[k])
    /\ out' = NoOut
    /\ UNCHANGED <<pc, tenantOf, arrival, victim, lst, started, resp, lpc, bulk, s3vars, now>>

\* a slip of the status test: any record counts as active
CheckActiveAnyRecord(t) ==
    /\ out' = Out("check-active", t, IF Has(t) THEN "active" ELSE "inactive", NullQr)
    /\ UNCHANGED <<clients, pc, tenantOf, arrival, victim, cl, ev, lst, started, resp, folder, lpc, bulk, s3vars, now>>

\* ---------------------------------------------- GET /check-active/:id
CheckActive(t) ==
    /\ out' = Out("check-active", t, IF IsReady(t) THEN "active" ELSE "inactive", NullQr)
    /\ UNCHANGED <<clients, pc, tenantOf, arrival, victim, cl, ev, lst, started, resp, folder, lpc, bulk, s3vars, now>>

\* --------------------------------------------------- POST /logout/:id
\* 404 without a record; else await client.destroy()
Logout(t) ==
    /\ lpc[t] = 0
    /\ IF Has(t)
       THEN /\ lpc' = [lpc EXCEPT ![t] = clients[t].client]
            /\ out' = NoOut
       ELSE /\ out' = Out("logout", t, "not-found", NullQr)
            /\ UNCHANGED lpc
    /\ UNCHANGED <<clients, pc, tenantOf, arrival, victim, cl, ev, lst, started, resp, folder, bulk, s3vars, now>>

\* a slip of the logout: the record removed in a finally, also when
\* destroy() was rejected
LogoutResumeAlwaysRemoves(t) ==
    /\ lpc[t] # 0
    /\ lpc' = [lpc EXCEPT ![t] = 0]
    /\ clients' = Del(clients, t)
    /\ \E ok \in BOOLEAN :
        /\ cl' = [cl EXCEPT ![lpc[t]] = Destroyed(@, ok)]
        /\ IF ok
           THEN /\ folder' = [folder EXCEPT ![t] = FALSE]
                /\ out' = Out("logout", t, "success", NullQr)
           ELSE /\ out' = Out("logout", t, "error", NullQr)
                /\ UNCHANGED folder
    /\ UNCHANGED <<pc, tenantOf, arrival, victim, ev, lst, started, resp, bulk, s3vars, now>>

\* destroy() settled: delete folder and record, 200; or 500 and nothing else
LogoutResume(t) ==
    /\ lpc[t] # 0
    /\ lpc' = [lpc EXCEPT ![t] = 0]
    /\ \E ok \in BOOLEAN :
        IF ok
        THEN /\ cl' = [cl EXCEPT ![lpc[t]] = Destroyed(@, TRUE)]
             /\ folder' = [folder EXCEPT ![t] = FALSE]
             /\ clients' = Del(clients, t)
             /\ out' = Out("logout", t, "success", NullQr)
        ELSE /\ out' = Out("logout", t, "error", NullQr)
             /\ cl' = [cl EXCEPT ![lpc[t]] = Destroyed(@, FALSE)]
             /\ UNCHANGED <<clients, folder>>
    /\ UNCHANGED <<pc, tenantOf, arrival, victim, ev, lst, started, resp, bulk, s3vars, now>>

\* ------------------------------------------------- dispatcher inputs
\* a destination is the sequence of the characters of req.body.phoneNumber
Rep(c, n) == [i \in 1..n |-> c]
TenDigits == <<"2">> \o Rep("0", 9)
ElevenDigits == <<"1">> \o Rep("5", 10)
FifteenDigits == <<"9">> \o Rep("0", 14)
SixteenDigits == <<"9">> \o Rep("0", 15)
LeadingZero == <<"0">> \o Rep("1", 10)
PlusSign == <<"+">> \o Rep("1", 11)
NotANumber == <<"n", "o", "t", "a", "n", "u", "m", "b", "e", "r">>
WithLetter == Rep("1", 10) \o <<"x">>
Dests == {<< >>, TenDigits, ElevenDigits, FifteenDigits, SixteenDigits,
          LeadingZero, PlusSign, NotANumber, WithLetter}

\* req.body of /send-bulk-messages as Object.entries lists it
BulkInputs == {<< >>, <<ElevenDigits>>, <<ElevenDigits, NotANumber>>,
               <<NotANumber, ElevenDigits>>, <<TenDigits, FifteenDigits, LeadingZero>>}

\* how client.sendMessage settles: resolved, or rejected with an Error whose
\* message and name may be empty
SendOutcomes == {[ok |-> TRUE, message |-> "", name |-> ""],
                 [ok |-> FALSE, message |-> "Evaluation failed", name |-> "Error"],
                 [ok |-> FALSE, message |-> "", name |-> ""]}

\* no call of client.sendMessage was made
NoSend == [ok |-> FALSE, message |-> "", name |-> ""]

\* \d of the regular expression
Digit == {"0", "1", "2", "3", "4", "5", "6", "7", "8", "9"}

\* a slip of the quantifier: \d{9,14}
ValidPhoneShort(d) ==
    /\ Len(d) >= 1 /\ d[1] \in Digit \ {"0"}
    /\ Len(d) - 1 >= 9 /\ Len(d) - 1 <= 14
    /\ \A i \in 2..Len(d) : d[i] \in Digit

\* /^[1-9]\d{10,14}$/.test(phoneNumber)
ValidPhone(d) ==
    /\ Len(d) >= 1 /\ d[1] \in Digit \ {"0"}
    /\ Len(d) - 1 >= 10 /\ Len(d) - 1 <= 14
    /\ \A i \in 2..Len(d) : d[i] \in Digit

\* `${phoneNumber}@c.us`
ChatId(d) == d \o <<"@", "c", ".", "u", "s">>

\* the centralized error-handling middleware: the error is logged, the body is fixed
ErrorMiddleware(r) == "An unexpected error occurred."

\* what a /send-message answer is made of
SendDetail(d, fwd, to, r, code, msg) ==
    [dest |-> d, fwd |-> fwd, to |-> to, chat |-> IF fwd THEN ChatId(d) ELSE << >>,
     cause |-> r.message, code |-> code, msg |-> msg]

\* a slip of the order of the tests: the destination validated before the
\* readiness
SendMessageValidatesFirst(t, d, r) ==
    /\ out' = IF ~ValidPhone(d)
              THEN OutD("send", t, "InvalidDestination",
                        SendDetail(d, FALSE, 0, NoSend, 400,
                                   "Invalid phone number format"))
              ELSE IF ~IsReady(t)
              THEN OutD("send", t, "SessionNotReady",
                        SendDetail(d, FALSE, 0, NoSend, 400,
                                   "User session is not ready or is inactive"))
              ELSE IF r.ok
              THEN OutD("send", t, "success",
                        SendDetail(d, TRUE, clients[t].client, r, 200, "response"))
              ELSE OutD("send", t, "SendFailed",
                        SendDetail(d, TRUE, clients[t].client, r, 500, ErrorMiddleware(r)))
    /\ UNCHANGED <<clients, pc, tenantOf, arrival, victim, cl, ev, lst, started, resp, folder, lpc, bulk, s3vars, now>>

\* ------------------------------------------- POST /send-message/:id
\* no state is read after the await of client.sendMessage, so the handler
\* is one step
SendMessage(t, d, r) ==
    /\ out' = IF ~IsReady(t)
              THEN OutD("send", t, "SessionNotReady",
                        SendDetail(d, FALSE, 0, NoSend, 400,
                                   "User session is not ready or is inactive"))
              ELSE IF ~ValidPhone(d)
              THEN OutD("send", t, "InvalidDestination",
                        SendDetail(d, FALSE, 0, NoSend, 400,
                                   "Invalid phone number format"))
              ELSE IF r.ok
              THEN OutD("send", t, "success",
                        SendDetail(d, TRUE, clients[t].client, r, 200, "response"))
              ELSE OutD("send", t, "SendFailed",
                        SendDetail(d, TRUE, clients[t].client, r, 500, ErrorMiddleware(r)))
    /\ UNCHANGED <<clients, pc, tenantOf, arrival, victim, cl, ev, lst, started, resp, folder, lpc, bulk, s3vars, now>>

\* ------------------------------------- POST /send-bulk-messages/:id
\* results[phoneNumber] = { status: 'success', response } or the error entry
BulkEntry(r) ==
    IF r.ok
    THEN [status |-> "success", error |-> "", type |-> ""]
    ELSE [status |-> "error",
          error |-> IF r.message # "" THEN r.message ELSE "An error occurred",
          type |-> IF r.name # "" THEN r.name ELSE "UnknownError"]

\* 400 unless ready; else take the client and start the loop
BulkStart(t, items) ==
    /\ bulk.st = "idle"
    /\ IF ~IsReady(t)
       THEN /\ out' = OutD("bulk", t, "SessionNotReady",
                           [items |-> items, res |-> << >>, tried |-> << >>])
            /\ UNCHANGED bulk
       ELSE /\ bulk' = [st |-> "loop", t |-> t, client |-> clients[t].client,
                        items |-> items, i |-> 1, res |-> << >>, tried |-> << >>]
            /\ out' = NoOut
    /\ UNCHANGED <<clients, pc, tenantOf, arrival, victim, cl, ev, lst, started, resp, folder, lpc, s3vars, now>>

\* a loop without the inner try/catch: the first rejection ends the loop
BulkItemAborts(r) ==
    /\ bulk.st = "loop" /\ bulk.i <= Len(bulk.items)
    /\ LET d == bulk.items[bulk.i] IN
        bulk' = [bulk EXCEPT !.i = IF r.ok THEN @ + 1 ELSE Len(bulk.items) + 1,
                             !.tried = Append(@, <<bulk.client, ChatId(d)>>),
                             !.res = IF r.ok THEN Put(@, d, BulkEntry(r)) ELSE @]
    /\ out' = NoOut
    /\ UNCHANGED <<clients, pc, tenantOf, arrival, victim, cl, ev, lst, started, resp, folder, lpc, s3vars, now>>

\* a loop that tests the readiness again before each item and stops when
\* the session is not Ready any more
BulkItemRechecksReady(r) ==
    /\ bulk.st = "loop" /\ bulk.i <= Len(bulk.items)
    /\ LET d == bulk.items[bulk.i] IN
        bulk' = IF IsReady(bulk.t)
                THEN [bulk EXCEPT !.i = @ + 1,
                                  !.tried = Append(@, <<bulk.client, ChatId(d)>>),
                                  !.res = Put(@, d, BulkEntry(r))]
                ELSE [bulk EXCEPT !.i = Len(bulk.items) + 1]
    /\ out' = NoOut
    /\ UNCHANGED <<clients, pc, tenantOf, arrival, victim, cl, ev, lst, started, resp, folder, lpc, s3vars, now>>

\* one iteration: await client.sendMessage(`${phoneNumber}@c.us`, message)
\* settled as r, recorded under the key
BulkItem(r) ==
    /\ bulk.st = "loop" /\ bulk.i <= Len(bulk.items)
    /\ LET d == bulk.items[bulk.i] IN
        bulk' = [bulk EXCEPT !.i = @ + 1,
                             !.tried = Append(@, <<bulk.client, ChatId(d)>>),
                             !.res = Put(@, d, BulkEntry(r))]
    /\ out' = NoOut
    /\ UNCHANGED <<clients, pc, tenantOf, arrival, victim, cl, ev, lst, started, resp, folder, lpc, s3vars, now>>

\* res.json(results)
BulkFinish ==
    /\ bulk.st = "loop" /\ bulk.i > Len(bulk.items)
    /\ out' = OutD("bulk", bulk.t, "results",
                   [items |-> bulk.items, res |-> bulk.res, tried |-> bulk.tried])
    /\ bulk' = BulkIdle
    /\ UNCHANGED <<clients, pc, tenantOf, arrival, victim, cl, ev, lst, started, resp, folder, lpc, s3vars, now>>

\* ---------------------------------------------------------------- time
\* the clock is advanced while a timer or a cache timestamp can observe it,
\* and never past the deadline of an armed QR timeout
Tick ==
    /\ now < MaxNow
    /\ \/ \E k \in Calls : started[k] # NullTime
       \/ \E t \in DOMAIN clients : clients[t].qrGeneratedAt # NullTime
    /\ \A k \in Calls : ~(pc[k] = "awaitQr" /\ lst[k] = "armed"
                          /\ now - started[k] >= QR_GENERATION_TIMEOUT)
    /\ now' = now + TickMs
    /\ out' = NoOut
    /\ UNCHANGED <<clients, pc, tenantOf, arrival, victim, cl, ev, lst, started, resp, folder, lpc, bulk, s3vars>>

Next ==
    \/ \E t \in Tenants : GetQr(t)
    \/ \E k \in Calls : InitResume(k)
    \/ \E k \in Calls : QrEvent(k)
    \/ \E k \in Calls : QrConverted(k)
    \/ \E k \in Calls : QrTimeout(k)
    \/ \E k \in Calls : ReadyEvent(k)
    \/ \E k \in Calls : AuthFailure(k)
    \/ \E k \in Calls : Disconnected(k)
    \/ \E k \in Calls : DiscCleanup(k)
    \/ \E t \in Tenants : CheckActive(t)
    \/ \E t \in Tenants : Logout(t)
    \/ \E t \in Tenants : LogoutResume(t)
    \/ Tick

Spec == Init /\ [][Next]_vars

\* concurrent get-QR requests and pairing-code events only, with one more
\* call, in an environment where every destroy() resolves
InitRace == InitWith(OneTenant, MaxRaceCalls)

NextRace ==
    \/ \E t \in Tenants : GetQr(t)
    \/ \E k \in Calls : InitResume(k) /\ cl'[victim[k]] = "destroyed"
    \/ \E k \in Calls : QrEvent(k)
    \/ \E k \in Calls : QrConverted(k)

SpecRace == InitRace /\ [][NextRace]_vars

\* the races of get-QR requests with a client that becomes ready, in an
\* environment where every destroy() resolves and a client whose destroy()
\* is awaited emits nothing more
InitReplace == InitWith(OneTenant, MaxRaceCalls)

NextReplace ==
    \/ \E t \in Tenants : GetQr(t)
    \/ \E k \in Calls : InitResume(k) /\ cl'[victim[k]] = "destroyed"
    \/ \E k \in Calls : QrEvent(k)
    \/ \E k \in Calls : QrConverted(k)
    \/ \E k \in Calls : ReadyEvent(k) /\ \A j \in Calls : victim[j] # k

SpecReplace == InitReplace /\ [][NextReplace]_vars

\* the dispatcher routes over the life of one session
InitSend == InitWith(OneTenant, MaxSendCalls)

NextSend ==
    \/ \E t \in Tenants : GetQr(t)
    \/ \E k \in Calls : QrEvent(k)
    \/ \E k \in Calls : QrConverted(k)
    \/ \E k \in Calls : ReadyEvent(k)
    \/ \E k \in Calls : AuthFailure(k)
    \/ \E k \in Calls : Disconnected(k)
    \/ \E k \in Calls : DiscCleanup(k)
    \/ \E t \in Tenants : Logout(t)
    \/ \E t \in Tenants : LogoutResume(t)
    \/ \E t \in Tenants, d \in Dests, r \in SendOutcomes : SendMessage(t, d, r)
    \/ \E t \in Tenants, items \in BulkInputs : BulkStart(t, items)
    \/ \E r \in SendOutcomes : BulkItem(r)
    \/ BulkFinish

SpecSend == InitSend /\ [][NextSend]_vars

\* =====================================================================
\* src/unnamed/part_000: the session directory kept in S3
\* =====================================================================
\* an object key is the sequence of its "/"-separated segments
SessionName == ("a" :> "session-a") @@ ("b" :> "session-b")
IsPrefix(p, key) == Len(p) <= Len(key) /\ \A i \in 1..Len(p) : key[i] = p[i]

\* the files of a session directory, in readdirSync order
SessionFiles == << <<"Default", "Cookies">>, <<"DevToolsActivePort">> >>
FileSet == {SessionFiles[i] : i \in 1..Len(SessionFiles)}

\* sessionPrefix of initializeClient: `./wwebjs_auth/session-${userId}/`
InitPrefix(t) == <<".", "wwebjs_auth", SessionName[t]>>
\* sessionPrefix of watchAndUploadSession and of /logout: `wwebjs_auth/session-${userId}/`
WatchPrefix(t) == <<"wwebjs_auth", SessionName[t]>>

\* ListObjectsV2 with Prefix p
Listed(p) == {key \in s3 : IsPrefix(p, key)}

\* new Client, the record overwritten, listeners on, client.initialize();
\* how: what restore did before ("fresh": nothing to restore, "restored")
ConstructS3(k, how) ==
    /\ arrival' = [arrival EXCEPT ![k] = how]
    /\ clients' = Put(clients, tenantOf[k], NewRecord(k))
    /\ folder' = [folder EXCEPT ![tenantOf[k]] = TRUE]
    /\ pc' = [pc EXCEPT ![k] = "done"]
    /\ cl' = [cl EXCEPT ![k] = "live"]
    /\ lst' = [lst EXCEPT ![k] = "armed"]
    /\ UNCHANGED resp

\* restoreDirectoryFromS3 rejected: initializeClient rejects before new Client
\* and the route's catch answers 500 'Failed to initialize client'
RestoreFailed(k) ==
    /\ arrival' = [arrival EXCEPT ![k] = "unavailable"]
    /\ resp' = [resp EXCEPT ![k] = ErrResp]
    /\ pc' = [pc EXCEPT ![k] = "done"]
    /\ UNCHANGED <<clients, folder, cl, lst>>

\* a slip of the creation: the client constructed at once, restore never called
GetQrS3NoRestore(t) ==
    IF IsReady(t)
    THEN /\ out' = Out("get-qr", t, "active", NullQr)
         /\ UNCHANGED <<clients, pc, tenantOf, arrival, victim, cl, ev, lst, started, resp, folder, lpc, bulk, s3vars, now>>
    ELSE /\ FreeCalls # {}
         /\ arrival' = [arrival EXCEPT ![NextCall] = "fresh"]
         /\ clients' = Put(clients, t, NewRecord(NextCall))
         /\ folder' = [folder EXCEPT ![t] = TRUE]
         /\ pc' = [pc EXCEPT ![NextCall] = "done"]
         /\ cl' = [cl EXCEPT ![NextCall] = "live"]
         /\ lst' = [lst EXCEPT ![NextCall] = "armed"]
         /\ tenantOf' = [tenantOf EXCEPT ![NextCall] = t]
         /\ out' = NoOut
         /\ UNCHANGED <<victim, ev, started, resp, lpc, bulk, s3vars, now>>

\* GET /get-qr/:userId: active, or initializeClient up to its await of
\* restoreDirectoryFromS3 (no cache test, no destroy of the previous client)
GetQrS3(t) ==
    IF IsReady(t)
    THEN /\ out' = Out("get-qr", t, "active", NullQr)
         /\ UNCHANGED <<clients, pc, tenantOf, arrival, victim, cl, ev, lst, started, resp, folder, lpc, bulk, s3vars, now>>
    ELSE /\ FreeCalls # {}
         /\ pc' = [pc EXCEPT ![NextCall] = "awaitRestore"]
         /\ tenantOf' = [tenantOf EXCEPT ![NextCall] = t]
         /\ out' = NoOut
         /\ UNCHANGED <<clients, arrival, victim, cl, ev, lst, started, resp, folder, lpc, bulk, s3vars, now>>

\* a slip of restore: an empty listing thrown as an error
RestoreListedMissingThrows(k, ok) ==
    /\ pc[k] = "awaitRestore"
    /\ IF ~ok \/ Listed(InitPrefix(tenantOf[k])) = {} THEN RestoreFailed(k)
       ELSE /\ pc' = [pc EXCEPT ![k] = "download"]
            /\ folder' = [folder EXCEPT ![tenantOf[k]] = TRUE]
            /\ UNCHANGED <<clients, arrival, cl, lst, resp>>
    /\ out' = NoOut
    /\ UNCHANGED <<tenantOf, victim, ev, started, lpc, bulk, s3vars, now>>

\* the list command of restoreDirectoryFromS3 settled: rejected, or nothing
\* under the prefix (return, then construct), or the downloads started
RestoreListed(k, ok) ==
    /\ pc[k] = "awaitRestore"
    /\ IF ~ok THEN RestoreFailed(k)
       ELSE IF Listed(InitPrefix(tenantOf[k])) = {} THEN ConstructS3(k, "fresh")
       ELSE /\ pc' = [pc EXCEPT ![k] = "download"]
            /\ folder' = [folder EXCEPT ![tenantOf[k]] = TRUE]
            /\ UNCHANGED <<clients, arrival, cl, lst, resp>>
    /\ out' = NoOut
    /\ UNCHANGED <<tenantOf, victim, ev, started, lpc, bulk, s3vars, now>>

\* the downloads of the listed keys settled: all written to the session
\* directory (then construct), or one rejected
RestoreDone(k, ok) ==
    /\ pc[k] = "download"
    /\ IF ok THEN ConstructS3(k, "restored") ELSE RestoreFailed(k)
    /\ out' = NoOut
    /\ UNCHANGED <<tenantOf, victim, ev, started, lpc, bulk, s3vars, now>>

\* client.on('qr'), up to its await of qrcode.toDataURL
QrS3(k) ==
    /\ Live(k) /\ ev[k] = "boot" /\ lst[k] = "armed"
    /\ lst' = [lst EXCEPT ![k] = "convert"]
    /\ out' = NoOut
    /\ UNCHANGED <<clients, pc, tenantOf, arrival, victim, cl, ev, started, resp, folder, lpc, bulk, s3vars, now>>

\* ... the code cached in whatever record the tenant has and written to the
\* request's response (a second write, or a deleted record, throws)
QrS3Converted(k) ==
    /\ lst[k] = "convert"
    /\ lst' = [lst EXCEPT ![k] = "armed"]
    /\ LET t == tenantOf[k] IN
        IF Has(t)
        THEN /\ clients' = [clients EXCEPT ![t].qrCode = DataURL(QrOf(k)),
                                           ![t].qrGeneratedAt = now]
             /\ resp' = [resp EXCEPT ![k] = IF @ = NoResp THEN QrResp(DataURL(QrOf(k))) ELSE @]
        ELSE UNCHANGED <<clients, resp>>
    /\ out' = NoOut
    /\ UNCHANGED <<pc, tenantOf, arrival, victim, cl, ev, started, folder, lpc, bulk, s3vars, now>>

\* client.on('ready'): isReady = true, the watcher registered (it reports
\* every file already there), the upload of the directory started
ReadyS3(k) ==
    /\ Live(k) /\ ev[k] = "boot"
    /\ ev' = [ev EXCEPT ![k] = "ready"]
    /\ LET t == tenantOf[k] IN
        IF Has(t)
        THEN /\ clients' = [clients EXCEPT ![t].isReady = TRUE]
             /\ watcher' = [watcher EXCEPT ![t] = [on |-> TRUE, q |-> FileSet]]
             /\ up' = [up EXCEPT ![k] = 1]
        ELSE UNCHANGED <<clients, watcher, up>>
    /\ out' = NoOut
    /\ UNCHANGED <<pc, tenantOf, arrival, victim, cl, lst, started, resp, folder, lpc, bulk, s3, lg, now>>

\* uploadDirectoryToS3(sessionDir, sessionPrefix): one PutObject settled
UploadStep(k) ==
    /\ up[k] # 0
    /\ s3' = s3 \cup {InitPrefix(tenantOf[k]) \o SessionFiles[up[k]]}
    /\ up' = [up EXCEPT ![k] = IF @ < Len(SessionFiles) THEN @ + 1 ELSE 0]
    /\ out' = NoOut
    /\ UNCHANGED <<clients, pc, tenantOf, arrival, victim, cl, ev, lst, started, resp, folder, lpc, bulk, watcher, lg, now>>

\* a slip of the ready handler: a rejected upload caught and the ready flag cleared
UploadRejectedRollsBack(k) ==
    /\ up[k] # 0
    /\ up' = [up EXCEPT ![k] = 0]
    /\ clients' = IF Has(tenantOf[k])
                  THEN [clients EXCEPT ![tenantOf[k]].isReady = FALSE]
                  ELSE clients
    /\ out' = Out("upload", tenantOf[k], "rejected", NullQr)
    /\ UNCHANGED <<pc, tenantOf, arrival, victim, cl, ev, lst, started, resp, folder, lpc, bulk, s3, watcher, lg, now>>

\* a PutObject of uploadDirectoryToS3 rejected: the loop is left, the promise
\* of the ready handler rejects, and nothing else is assigned
UploadRejected(k) ==
    /\ up[k] # 0
    /\ up' = [up EXCEPT ![k] = 0]
    /\ out' = Out("upload", tenantOf[k], "rejected", NullQr)
    /\ UNCHANGED <<clients, pc, tenantOf, arrival, victim, cl, ev, lst, started, resp, folder, lpc, bulk, s3, watcher, lg, now>>

\* the browser of a live client rewrites a file of the watched directory
FileChanged(t, f) ==
    /\ watcher[t].on /\ f \notin watcher[t].q
    /\ \E k \in Calls : Live(k) /\ tenantOf[k] = t
    /\ watcher' = [watcher EXCEPT ![t].q = @ \cup {f}]
    /\ out' = NoOut
    /\ UNCHANGED <<clients, pc, tenantOf, arrival, victim, cl, ev, lst, started, resp, folder, lpc, bulk, s3, up, lg, now>>

\* watcher.on('add' | 'change'): uploadToS3(`${sessionPrefix}${relativePath}`)
WatcherUpload(t, f) ==
    /\ f \in watcher[t].q
    /\ watcher' = [watcher EXCEPT ![t].q = @ \ {f}]
    /\ s3' = s3 \cup {WatchPrefix(t) \o f}
    /\ out' = NoOut
    /\ UNCHANGED <<clients, pc, tenantOf, arrival, victim, cl, ev, lst, started, resp, folder, lpc, bulk, up, lg, now>>

\* a slip of the logout: without a record the objects under the session
\* prefix are deleted before the 404
LogoutS3PurgesAbsent(t) ==
    /\ lg[t].st = "idle"
    /\ IF Has(t)
       THEN /\ lg' = [lg EXCEPT ![t] = [st |-> "destroy", client |-> clients[t].client, listed |-> {}]]
            /\ out' = NoOut
            /\ UNCHANGED s3
       ELSE /\ out' = Out("logout", t, "not-found", NullQr)
            /\ s3' = s3 \ Listed(WatchPrefix(t))
            /\ UNCHANGED lg
    /\ UNCHANGED <<clients, pc, tenantOf, arrival, victim, cl, ev, lst, started, resp, folder, lpc, bulk, watcher, up, now>>

\* POST /logout/:userId: 404 without a record; else await client.destroy()
LogoutS3(t) ==
    /\ lg[t].st = "idle"
    /\ IF Has(t)
       THEN /\ lg' = [lg EXCEPT ![t] = [st |-> "destroy", client |-> clients[t].client, listed |-> {}]]
            /\ out' = NoOut
       ELSE /\ out' = Out("logout", t, "not-found", NullQr)
            /\ UNCHANGED lg
    /\ UNCHANGED <<clients, pc, tenantOf, arrival, victim, cl, ev, lst, started, resp, folder, lpc, bulk, s3, watcher, up, now>>

\* destroy() settled: 500, or deleteFromS3(sessionPrefix) sends its list command
LogoutS3Destroyed(t) ==
    /\ lg[t].st = "destroy"
    /\ \E ok \in BOOLEAN :
        /\ cl' = [cl EXCEPT ![lg[t].client] = Destroyed(@, ok)]
        /\ IF ok
           THEN /\ lg' = [lg EXCEPT ![t].st = "list"]
                /\ out' = NoOut
           ELSE /\ lg' = [lg EXCEPT ![t] = LogoutIdle]
                /\ out' = Out("logout", t, "error", NullQr)
    /\ UNCHANGED <<clients, pc, tenantOf, arrival, victim, ev, lst, started, resp, folder, lpc, bulk, s3, watcher, up, now>>

\* a slip of deleteFromS3: no early return, and the delete command with an
\* empty list of keys is rejected, so that the logout answers 500
LogoutS3ListedEmptyThrows(t) ==
    /\ lg[t].st = "list"
    /\ IF Listed(WatchPrefix(t)) = {}
       THEN /\ lg' = [lg EXCEPT ![t] = LogoutIdle]
            /\ out' = Out("logout", t, "error", NullQr)
       ELSE /\ lg' = [lg EXCEPT ![t].st = "delete", ![t].listed = Listed(WatchPrefix(t))]
            /\ out' = NoOut
    /\ UNCHANGED <<clients, pc, tenantOf, arrival, victim, cl, ev, lst, started, resp, folder, lpc, bulk, s3, watcher, up, now>>

\* the list settled: nothing listed -> delete clients[userId], 200;
\* else the delete command for the listed keys is sent
LogoutS3Listed(t) ==
    /\ lg[t].st = "list"
    /\ IF Listed(WatchPrefix(t)) = {}
       THEN /\ lg' = [lg EXCEPT ![t] = LogoutIdle]
            /\ clients' = Del(clients, t)
            /\ out' = Out("logout", t, "success", NullQr)
       ELSE /\ lg' = [lg EXCEPT ![t].st = "delete", ![t].listed = Listed(WatchPrefix(t))]
            /\ out' = NoOut
            /\ UNCHANGED clients
    /\ UNCHANGED <<pc, tenantOf, arrival, victim, cl, ev, lst, started, resp, folder, lpc, bulk, s3, watcher, up, now>>

\* the delete settled: delete clients[userId], 200
LogoutS3Deleted(t) ==
    /\ lg[t].st = "delete"
    /\ s3' = s3 \ lg[t].listed
    /\ lg' = [lg EXCEPT ![t] = LogoutIdle]
    /\ clients' = Del(clients, t)
    /\ out' = Out("logout", t, "success", NullQr)
    /\ UNCHANGED <<pc, tenantOf, arrival, victim, cl, ev, lst, started, resp, folder, lpc, bulk, watcher, up, now>>

InitS3 == InitWith(OneTenant, MaxS3Calls)

NextS3 ==
    \/ \E t \in Tenants : GetQrS3(t)
    \/ \E k \in Calls, ok \in BOOLEAN : RestoreListed(k, ok)
    \/ \E k \in Calls, ok \in BOOLEAN : RestoreDone(k, ok)
    \/ \E k \in Calls : QrS3(k)
    \/ \E k \in Calls : QrS3Converted(k)
    \/ \E k \in Calls : ReadyS3(k)
    \/ \E k \in Calls : UploadStep(k)
    \/ \E k \in Calls : UploadRejected(k)
    \/ \E t \in Tenants, f \in FileSet : FileChanged(t, f)
    \/ \E t \in Tenants, f \in FileSet : WatcherUpload(t, f)
    \/ \E t \in Tenants : CheckActive(t)
    \/ \E t \in Tenants : LogoutS3(t)
    \/ \E t \in Tenants : LogoutS3Destroyed(t)
    \/ \E t \in Tenants : LogoutS3Listed(t)
    \/ \E t \in Tenants : LogoutS3Deleted(t)

SpecS3 == InitS3 /\ [][NextS3]_vars

\* POST /send-message/:userId of part_000: 400 unless ready, else the
\* message forwarded to `${phoneNumber}@c.us`; ok: what sendMessage settled to
SendMessageS3(t, ok) ==
    /\ out' = Out("send", t, IF ~IsReady(t) THEN "SessionNotReady"
                             ELSE IF ok THEN "success" ELSE "SendFailed", NullQr)
    /\ UNCHANGED <<clients, pc, tenantOf, arrival, victim, cl, ev, lst, started, resp, folder, lpc, bulk, s3vars, now>>

\* ------------------------------------------------ two tenants side by side
\* what an earlier run of the process in which tenant t paired left in the
\* bucket: the upload of the directory and the uploads of the watcher
PriorRun(t) == {InitPrefix(t) \o f : f \in FileSet} \cup {WatchPrefix(t) \o f : f \in FileSet}

\* the process restarted with the objects of tenant "b" in the bucket
InitIso == InitStored(TwoTenants, MaxIsoCalls, PriorRun("b"))

\* the tenant each call serves: one initializeClient per tenant
IsoOrder(k) == IF k = 1 THEN "a" ELSE "b"

\* the steps of the requests of tenant t, of the events of its clients and of
\* its restore, upload and delete commands
ActsFor(t) ==
    \/ GetQrS3(t)
    \/ \E ok \in BOOLEAN : SendMessageS3(t, ok)
    \/ LogoutS3(t)
    \/ LogoutS3Destroyed(t)
    \/ LogoutS3Listed(t)
    \/ LogoutS3Deleted(t)
    \/ \E f \in FileSet : WatcherUpload(t, f)
    \/ \E k \in Calls :
        /\ tenantOf[k] = t
        /\ \/ \E ok \in BOOLEAN : RestoreListed(k, ok)
           \/ \E ok \in BOOLEAN : RestoreDone(k, ok)
           \/ QrS3(k)
           \/ QrS3Converted(k)
           \/ ReadyS3(k)
           \/ UploadStep(k)

\* the requests of two tenants and the events of their clients, interleaved;
\* each client emits its pairing code until the request is answered
NextIso ==
    \/ \E t \in Tenants : GetQrS3(t) /\ (IsReady(t) \/ IsoOrder(NextCall) = t)
    \/ \E k \in Calls, ok \in BOOLEAN : RestoreListed(k, ok)
    \/ \E k \in Calls, ok \in BOOLEAN : RestoreDone(k, ok)
    \/ \E k \in Calls : QrS3(k) /\ resp[k] = NoResp
    \/ \E k \in Calls : QrS3Converted(k)
    \/ \E k \in Calls : ReadyS3(k)
    \/ \E k \in Calls : UploadStep(k)
    \/ \E t \in Tenants, f \in FileSet : WatcherUpload(t, f)
    \/ \E t \in Tenants, ok \in BOOLEAN : SendMessageS3(t, ok)
    \/ \E t \in Tenants : LogoutS3(t)
    \/ \E t \in Tenants : LogoutS3Destroyed(t)
    \/ \E t \in Tenants : LogoutS3Listed(t)
    \/ \E t \in Tenants : LogoutS3Deleted(t)

SpecIso == InitIso /\ [][NextIso]_vars

\* =====================================================================
\* Claims
\* =====================================================================

LiveClientsOf(t) == {k \in Calls : Live(k) /\ tenantOf[k] = t}

\* C1: under every interleaving of concurrent get-QR requests for a tenant,
\* at most one client constructed for the tenant is live (initialized and not
\* destroyed) at any instant.
C1_OneLiveClient ==
    \A t \in Tenants : Cardinality(LiveClientsOf(t)) <= 1

\* C2: a get-QR request that arrives while a creation is pending (a record
\* that is not ready and has no cached pairing code) never constructs a client.
C2_PendingStartsNoClient ==
    \A k \in Calls : arrival[k] = "pending" => cl[k] = "unborn"

\* C3: a get-QR request that finds a non-ready record with a cached payload
\* younger than 20 000 ms answers with exactly that payload, starts no
\* initializeClient call, constructs no client and leaves the record as it
\* is (so a second request within the TTL gets the identical payload).
C3_CacheHitReturnsCached ==
    [][\A t \in Tenants :
        (GetQr(t) /\ Has(t) /\ ~clients[t].isReady /\ clients[t].qrCode # NullQr
            /\ now - clients[t].qrGeneratedAt < 20000)
        => (/\ out' = Out("get-qr", t, "cached", clients[t].qrCode)
            /\ UNCHANGED <<clients, pc, cl, lst, arrival>>)]_vars

\* a cached payload of positive age was just returned
C3_Witness ==
    /\ out.op = "get-qr" /\ out.kind = "cached"
    /\ out.qr = clients[out.t].qrCode
    /\ now - clients[out.t].qrGeneratedAt > 0

\* C4: a get-QR request that finds the session not ready and the cached
\* payload absent or at least 20 000 ms old (20 000 counts as expired)
\* starts a generation, and when a generation answers its request with a
\* payload, that payload is the new client's code and it and the current time
\* have been stored in the tenant's record, replacing what was there.
C4_ExpiredRegenerates ==
    [][/\ \A t \in Tenants :
            (GetQr(t) /\ ~(Has(t) /\ clients[t].isReady)
                /\ (~Has(t) \/ clients[t].qrCode = NullQr
                        \/ now - clients[t].qrGeneratedAt >= 20000))
            => \E k \in Calls : pc[k] = "idle" /\ pc'[k] \in {"awaitDestroy", "awaitQr"}
       /\ \A k \in Calls :
            (resp[k].kind = "none" /\ resp'[k].kind = "qr")
            => /\ resp'[k].qr = DataURL(QrOf(k))
               /\ tenantOf[k] \in DOMAIN clients'
               /\ clients'[tenantOf[k]].qrCode = resp'[k].qr
               /\ clients'[tenantOf[k]].qrGeneratedAt = now]_vars

\* a request that found a cached code of age >= 20 000 got the new payload
C4_Witness ==
    \E k \in Calls :
        /\ arrival[k] = "expired" /\ resp[k].kind = "qr"
        /\ Has(tenantOf[k]) /\ clients[tenantOf[k]].qrCode = resp[k].qr

\* C5: a send-message request for a tenant with no record, or with a record
\* that is not ready, is answered SessionNotReady (status 400) and no
\* client's sendMessage is called; so it is after an auth failure, a
\* disconnect or a logout of the tenant.
C5_NotReadyRejected ==
    (out.op = "send" /\ ~(out.t \in DOMAIN clients /\ clients[out.t].isReady))
        => /\ out.kind = "SessionNotReady"
           /\ out.d.code = 400
           /\ ~out.d.fwd /\ out.d.to = 0

\* a send was refused for a tenant whose client had disconnected or had
\* failed to authenticate
C5_Witness ==
    /\ out.op = "send" /\ out.kind = "SessionNotReady"
    /\ \E k \in Calls : tenantOf[k] = out.t /\ ev[k] \in {"disc", "discReady", "gone", "goneReady", "authfail"}

\* the canonical address format in the words of the contract
Canonical(d) ==
    /\ Len(d) >= 11 /\ Len(d) <= 15
    /\ \A i \in 1..Len(d) : d[i] \in {"0", "1", "2", "3", "4", "5", "6", "7", "8", "9"}
    /\ d[1] # "0"

C7_SendFailedCarriesCause ==
    (out.op = "send" /\ out.d.fwd)
        => IF out.kind = "SendFailed"
           THEN out.d.msg = out.d.cause
           ELSE out.kind = "success" /\ out.d.code = 200

\* C8: a bulk request on a ready session calls sendMessage once for every
\* item, in order, whatever the earlier items' outcomes, and answers with a
\* map that has exactly the input destinations as keys, each entry a success
\* or an error with its cause and category.
C8_BulkComplete ==
    (out.op = "bulk" /\ out.kind = "results")
        => /\ DOMAIN out.d.res = {out.d.items[i] : i \in 1..Len(out.d.items)}
           /\ Len(out.d.tried) = Len(out.d.items)
           /\ \A i \in 1..Len(out.d.items) :
                out.d.tried[i][2] = out.d.items[i] \o <<"@", "c", ".", "u", "s">>
           /\ \A d \in DOMAIN out.d.res :
                \/ out.d.res[d].status = "success"
                \/ /\ out.d.res[d].status = "error"
                   /\ out.d.res[d].error # "" /\ out.d.res[d].type # ""

\* a batch whose first item failed and whose later item succeeded
C8_Witness ==
    /\ out.op = "bulk" /\ out.kind = "results" /\ Len(out.d.items) >= 2
    /\ out.d.res[out.d.items[1]].status = "error"
    /\ out.d.res[out.d.items[2]].status = "success"

\* C9: in the answer of a bulk request every destination that is not in the
\* canonical format has an InvalidDestination failure entry (and was not
\* sent to the client).
C9_BulkInvalidDestination ==
    (out.op = "bulk" /\ out.kind = "results")
        => \A i \in 1..Len(out.d.items) :
            ~Canonical(out.d.items[i])
                => /\ out.d.res[out.d.items[i]].status = "error"
                   /\ out.d.res[out.d.items[i]].type = "InvalidDestination"

\* the tenant's objects in the bucket, under either prefix the program uses
BlobsOf(t) == Listed(InitPrefix(t)) \cup Listed(WatchPrefix(t))

\* C10: when a logout is answered with success, and no upload of the
\* tenant's session is still running, the bucket holds no object of the
\* tenant, the registry holds no record of it and its status is inactive.
C10_LogoutRemovesBlob ==
    (/\ out.op = "logout" /\ out.kind = "success"
     /\ watcher[out.t].q = {}
     /\ \A k \in Calls : tenantOf[k] = out.t => up[k] = 0)
        => /\ BlobsOf(out.t) = {}
           /\ out.t \notin DOMAIN clients
           /\ ~IsReady(out.t)

C12_AuthFailureClearsRecord ==
    [][\A k \in Calls :
            (ev[k] = "boot" /\ ev'[k] = "authfail")
            => /\ tenantOf[k] \notin DOMAIN clients'
               /\ UNCHANGED <<folder, s3, cl>>
               /\ Found(tenantOf[k])' = "absent"]_vars

\* the record of a pending session was removed by its client's auth
\* failure and the next request constructed a new client
C12_Witness ==
    \E k, j \in Calls :
        /\ ev[k] = "authfail" /\ cl[k] = "live" /\ k # j
        /\ tenantOf[j] = tenantOf[k] /\ arrival[j] = "absent" /\ cl[j] = "live"
        /\ Has(tenantOf[k]) /\ clients[tenantOf[k]].client = j
        /\ ~clients[tenantOf[k]].isReady

\* C13: in the S3 variant a client is constructed and initialized only by
\* the call whose restore has completed: either its list found nothing under
\* the tenant's prefix, or the downloads of the listed objects are done.
C13_RestoreBeforeCreate ==
    [][\A k \in Calls :
            (cl[k] = "unborn" /\ cl'[k] = "live")
            => \/ pc[k] = "download" /\ arrival'[k] = "restored"
               \/ pc[k] = "awaitRestore" /\ Listed(InitPrefix(tenantOf[k])) = {}]_vars

\* a session was created from restored objects after the previous session
\* of the tenant had been logged out
C13_Witness ==
    \E k \in Calls :
        /\ arrival[k] = "restored" /\ cl[k] = "live"
        /\ Has(tenantOf[k]) /\ clients[tenantOf[k]].client = k
        /\ \A j \in Calls \ {k} : cl[j] = "destroyed"

\* C14: when the list of a creation's restore succeeds and finds no object
\* under the tenant's prefix, the creation goes on: the client is constructed
\* and initialized under a new record and no error is written to the request.
C14_MissingBlobIsFresh ==
    [][\A k \in Calls :
            (RestoreListed(k, TRUE) /\ Listed(InitPrefix(tenantOf[k])) = {})
            => /\ cl'[k] = "live" /\ arrival'[k] = "fresh"
               /\ clients'[tenantOf[k]] = NewRecord(k)
               /\ resp'[k] = resp[k] /\ resp'[k].kind # "error"]_vars

\* a creation that found nothing to restore delivered a pairing code
C14_Witness ==
    \E k \in Calls :
        /\ arrival[k] = "fresh" /\ cl[k] = "live" /\ s3 = {}
        /\ resp[k].kind = "qr"

\* C15: when the list or a download of a creation's restore fails, the
\* creation goes on as a fresh pairing: the client is constructed and
\* initialized and no error is written to the request.
C15_StorageFailureTolerated ==
    [][\A k \in Calls :
            (RestoreListed(k, FALSE) \/ RestoreDone(k, FALSE))
            => /\ cl'[k] = "live"
               /\ resp'[k].kind # "error"]_vars

\* C16: a get-QR request that finds the record ready answers "already
\* active" and changes neither the registry nor any client, and no step of
\* a get-QR request (its arrival or its resumption after destroy()) removes
\* or replaces a ready record or destroys its client.
C16_ReadyNeverReplaced ==
    [][\A t \in Tenants :
            (t \in DOMAIN clients /\ clients[t].isReady)
            => /\ GetQr(t) => /\ out' = Out("get-qr", t, "active", NullQr)
                              /\ UNCHANGED <<clients, cl, pc>>
               /\ \A k \in Calls :
                    (pc[k] = "awaitDestroy" /\ pc'[k] = "awaitQr" /\ tenantOf[k] = t)
                    => /\ t \in DOMAIN clients' /\ clients'[t] = clients[t]
                       /\ cl'[clients[t].client] = cl[clients[t].client]]_vars

\* C17: a generation whose client has emitted no pairing code is never
\* left waiting beyond 15 000 ms (one clock step at most), and the step that
\* ends it then answers the request with an error and leaves the registry,
\* the clients and the session folder as they are: the tenant's record stays.
C17_TimeoutKeepsRecord ==
    /\ [](\A k \in Calls :
            (pc[k] = "awaitQr" /\ lst[k] = "armed")
            => now - started[k] < 15000 + TickMs)
    /\ [][\A k \in Calls :
            (pc[k] = "awaitQr" /\ lst[k] = "armed" /\ pc'[k] = "done")
            => /\ now - started[k] >= 15000
               /\ resp'[k] = ErrResp
               /\ UNCHANGED <<clients, cl, folder, lst>>]_vars

\* a request was answered with the timeout error and the record of its
\* client is still in the registry, not ready
C17_Witness ==
    \E k \in Calls :
        /\ pc[k] = "done" /\ lst[k] = "armed" /\ resp[k] = ErrResp
        /\ Has(tenantOf[k]) /\ clients[tenantOf[k]].client = k
        /\ ~clients[tenantOf[k]].isReady /\ cl[k] = "live"

\* C18: no get-QR request is left without a response for longer than the
\* QR generation timeout (one clock step at most beyond 15 000 ms) after it
\* began to wait, be it for destroy() of the previous client or for the
\* pairing code of its own.
C18_AnsweredWithinTimeout ==
    \A k \in Calls :
        (resp[k].kind = "none"
            /\ (pc[k] = "awaitDestroy" \/ (pc[k] = "awaitQr" /\ lst[k] = "armed")))
        => now - started[k] < 15000 + TickMs

\* the step changes what the process holds for tenant t: its registry
\* record, its session directory or its objects in the bucket
Touches(t) ==
    \/ Has(t)' # Has(t)
    \/ Has(t) /\ Has(t)' /\ clients'[t] # clients[t]
    \/ folder'[t] # folder[t]
    \/ s3' # s3 /\ BlobsOf(t)' # BlobsOf(t)

C20_StatusIsReadyFlag ==
    [][\A t \in Tenants :
          (out'.op = "check-active" /\ out'.t = t)
          => /\ (out'.kind = "active") <=> (Has(t) /\ clients[t].isReady)
             /\ out'.kind \in {"active", "inactive"}
             /\ clients' = clients /\ folder' = folder /\ s3' = s3]_vars

\* a status query has just answered active for a tenant whose record is Ready
C20_Witness ==
    /\ out.op = "check-active" /\ out.kind = "active"
    /\ Has(out.t) /\ clients[out.t].isReady

\* C21: a record whose ready flag is set holds no pairing payload: qrCode is
\* null once the ready event has been handled, also when the conversion of
\* an earlier pairing code completes afterwards
C21_ReadyHoldsNoQr ==
    \A t \in DOMAIN clients : clients[t].isReady => clients[t].qrCode = NullQr

\* C22: a record whose ready flag is set holds a client that has emitted
\* ready and has not been destroyed
C22_ReadyFlagIsOfHeldClient ==
    \A t \in DOMAIN clients :
        clients[t].isReady
            => ev[clients[t].client] = "ready" /\ cl[clients[t].client] = "live"

\* C23: when initializeClient constructs a client for a tenant whose record
\* is already there, the client held by that record is destroyed by the time
\* the new record is stored
C23_OldClientDestroyed ==
    [][\A k \in Calls :
          (pc[k] = "awaitDestroy" /\ pc'[k] = "awaitQr" /\ Has(tenantOf[k]))
          => cl'[clients[tenantOf[k]].client] = "destroyed"]_vars

\* the values of ev after which a client that was initialized emits nothing more
Terminal == {"authfail", "disc", "discReady", "gone", "goneReady"}

C25_UploadedOncePerReady ==
    [][\A t \in Tenants :
          (s3' # s3 /\ BlobsOf(t)' \ BlobsOf(t) # {})
          => \E k \in Calls : tenantOf[k] = t /\ ev[k] = "ready"
                              /\ up[k] # 0 /\ up'[k] # up[k]]_vars

\* C26: the step that handles the ready event of a client starts no upload:
\* no PutObject of the session directory is in flight when the handler returns
C26_UploadWaitsForQuiescence ==
    [][\A k \in Calls : (ev'[k] = "ready" /\ ev[k] # "ready") => up'[k] = 0]_vars

C28_PurgeRestoreIdempotent ==
    [][/\ \A t \in Tenants :
            /\ (lg[t].st = "list" /\ lg'[t].st # "list" /\ Listed(WatchPrefix(t)) = {})
                  => /\ s3' = s3
                     /\ out'.op = "logout" /\ out'.kind = "success"
                     /\ clients' = Del(clients, t)
            /\ (lg[t].st = "delete" /\ lg'[t].st # "delete")
                  => /\ s3' = s3 \ lg[t].listed
                     /\ Listed(WatchPrefix(t)) \subseteq lg[t].listed
                            => Listed(WatchPrefix(t))' = {}
       /\ \A k \in Calls :
            (pc[k] = "awaitRestore" /\ pc'[k] # "awaitRestore"
                /\ arrival'[k] # "unavailable" /\ Listed(InitPrefix(tenantOf[k])) = {})
            => /\ s3' = s3
               /\ arrival'[k] = "fresh" /\ resp'[k] = resp[k]
               /\ clients' = Put(clients, tenantOf[k], NewRecord(k))]_vars

\* a tenant was restored from an empty bucket and then logged out of it:
\* both commands found nothing and the logout answered 200
C28_Witness ==
    /\ out.op = "logout" /\ out.kind = "success" /\ s3 = {}
    /\ \A k \in Calls : ev[k] # "ready"
    /\ \E k \in Calls : tenantOf[k] = out.t /\ arrival[k] = "fresh"
    /\ ~Has(out.t)

\* C29: every object that the uploads of a tenant store is under the prefix
\* that the restore of that tenant lists
C29_RestoreReadsWhatPersistStores ==
    \A t \in Tenants : BlobsOf(t) \subseteq Listed(InitPrefix(t))

\* C30: after the request of a client was answered with the timeout error,
\* the pairing code that the client emits later is cached in the tenant's
\* record with its time, and its ready event sets the ready flag
C30_LateEventsRecorded ==
    [][\A k \in Calls :
          /\ (resp[k] = ErrResp /\ lst[k] = "convert" /\ lst'[k] = "used"
                 /\ Has(tenantOf[k]))
                => /\ Has(tenantOf[k])'
                   /\ clients'[tenantOf[k]].qrCode = DataURL(QrOf(k))
                   /\ clients'[tenantOf[k]].qrGeneratedAt = now
          /\ (resp[k] = ErrResp /\ lst[k] = "armed" /\ ev[k] = "boot" /\ ev'[k] = "ready"
                 /\ Has(tenantOf[k]))
                => Has(tenantOf[k])' /\ clients'[tenantOf[k]].isReady]_vars

\* a get-QR poll has just returned the cached pairing code of a client whose
\* own request had been answered with the timeout error
C30_Witness ==
    /\ out.op = "get-qr" /\ out.kind = "cached"
    /\ \E k \in Calls :
        /\ tenantOf[k] = out.t /\ resp[k] = ErrResp /\ lst[k] = "used"
        /\ out.qr = DataURL(QrOf(k))
        /\ Has(out.t) /\ clients[out.t].client = k /\ clients[out.t].qrCode = out.qr

\* C31: a message is forwarded only to a client that has emitted ready and
\* on which destroy() has not been called: not a client whose destroy() a
\* logout, a disconnected handler or an initializeClient is awaiting or has
\* seen settle
C31_SendOnlyToReadyLiveClient ==
    [][(out'.op = "send" /\ out'.d # << >> /\ out'.d.fwd)
          => /\ ev[out'.d.to] = "ready"
             /\ cl[out'.d.to] = "live"
             /\ \A t \in Tenants : lpc[t] # out'.d.to
             /\ \A k \in Calls : victim[k] # out'.d.to]_vars

\* C32: no listener of a client raises an error: no step ends with the
\* TypeError of a ready, auth_failure or disconnected handler
C32_EventsNeverRaise ==
    ~(out.op = "event" /\ out.kind = "TypeError")

\* C33: the bulk route tests the readiness once: without a Ready record it
\* answers SessionNotReady and attempts nothing; with one it takes the client
\* of the record, and from then on every item is attempted on that client
\* and gets its entry, whatever becomes of the record meanwhile
C33_BulkReadinessOnce ==
    [][/\ (out'.op = "bulk" /\ out'.kind = "SessionNotReady")
            => /\ ~IsReady(out'.t) /\ bulk.st = "idle" /\ bulk' = bulk
               /\ out'.d.tried = << >> /\ out'.d.res = << >>
       /\ (bulk.st = "idle" /\ bulk'.st = "loop")
            => /\ IsReady(bulk'.t) /\ bulk'.client = clients[bulk'.t].client
               /\ bulk'.i = 1 /\ bulk'.tried = << >>
       /\ (bulk.st = "loop" /\ bulk'.st = "loop" /\ bulk' # bulk)
            => /\ bulk'.client = bulk.client /\ bulk'.i = bulk.i + 1
               /\ bulk'.tried = Append(bulk.tried, <<bulk.client, ChatId(bulk.items[bulk.i])>>)
               /\ bulk.items[bulk.i] \in DOMAIN bulk'.res
       /\ (out'.op = "bulk" /\ out'.kind = "results")
            => /\ Len(out'.d.tried) = Len(out'.d.items)
               /\ \A i \in 1..Len(out'.d.tried) : out'.d.tried[i][1] = bulk.client
               /\ \A i \in 1..Len(out'.d.items) : out'.d.items[i] \in DOMAIN out'.d.res]_vars

\* a batch of two items has been answered in full although the tenant's
\* session was not Ready any more when it ended
C33_Witness ==
    /\ out.op = "bulk" /\ out.kind = "results"
    /\ Len(out.d.items) >= 2 /\ Len(out.d.tried) = Len(out.d.items)
    /\ ~IsReady(out.t)

C36_LogoutWithoutRecord ==
    [][\A t \in Tenants :
        /\ (lg[t].st = "idle" /\ ~Has(t) /\ out'.op = "logout" /\ out'.t = t)
            => /\ out' = Out("logout", t, "not-found", NullQr)
               /\ lg' = lg /\ cl' = cl
               /\ clients' = clients /\ s3' = s3
        /\ (lg[t].st = "idle" /\ lg'[t].st # "idle")
            => /\ Has(t) /\ lg'[t].st = "destroy"
               /\ lg'[t].client = clients[t].client]_vars

\* a logout has just been answered not-found for a tenant whose objects
\* are in the bucket
C36_Witness ==
    /\ out.op = "logout" /\ out.kind = "not-found"
    /\ ~Has(out.t)
    /\ Listed(WatchPrefix(out.t)) # {}

\* C37: /send-message tests the readiness before the destination: an
\* invalid destination for a tenant without a Ready record is answered
\* SessionNotReady, so that InvalidDestination is only ever answered on a
\* Ready session; neither answer changes the registry
C37_ReadinessBeforeDestination ==
    [][(out'.op = "send" /\ out'.d # << >>)
        => /\ (~ValidPhone(out'.d.dest) /\ ~IsReady(out'.t))
                => /\ out'.kind = "SessionNotReady"
                   /\ out'.d.msg = "User session is not ready or is inactive"
           /\ out'.kind = "InvalidDestination"
                => IsReady(out'.t) /\ ~ValidPhone(out'.d.dest)
           /\ out'.kind \in {"SessionNotReady", "InvalidDestination"}
                => clients' = clients /\ cl' = cl /\ ~out'.d.fwd]_vars

\* a destination that is not a number was sent to a tenant without a Ready
\* record, and the answer was SessionNotReady
C37_Witness ==
    /\ out.op = "send" /\ out.kind = "SessionNotReady"
    /\ out.d.dest = NotANumber
    /\ ~IsReady(out.t)

\* C38: in every record of the registry qrCode is non-null exactly when
\* qrGeneratedAt is non-null: they are stored together and cleared together
C38_QrCodeIffQrGeneratedAt ==
    \A t \in DOMAIN clients :
        clients[t].qrCode # NullQr <=> clients[t].qrGeneratedAt # NullTime

\* the record of a client whose pairing code was cached and which then
\* became ready: both fields are null again
C38_Witness ==
    \E k \in Calls :
        /\ lst[k] = "used" /\ resp[k].kind = "qr" /\ ev[k] = "ready"
        /\ Has(tenantOf[k]) /\ clients[tenantOf[k]].client = k
        /\ clients[tenantOf[k]].qrCode = NullQr
        /\ clients[tenantOf[k]].qrGeneratedAt = NullTime

====
